---- MODULE Spec2Model ----
(***************************************************************************)
(* Model of klogg's log indexing core (src/logdata/src/logdataworker.cpp): *)
(* the shared IndexingData, the block parser, the reader/limiter/parser    *)
(* pipeline of IndexOperation::doIndex, the three operations and the       *)
(* LogDataWorker facade that serialises them.                              *)
(*                                                                         *)
(* Scaling.  A byte is one of "LF", "TAB", "a".  IndexingBlockSize is      *)
(* scaled from 1 MiB down to 2 bytes so that files of a handful of bytes   *)
(* span several blocks and reach the header/tail fast path.  A digest is   *)
(* an ideal (collision free) hash: the positional encoding of the bytes    *)
(* digested, 1 for no bytes, so that it never equals the zero of a         *)
(* value-initialised IndexedHash.                                          *)
(***************************************************************************)
EXTENDS Integers, Sequences, FiniteSets, TLC

\* ------------------------------------------------------------------ bounds
MaxFileLen == 3         \* longest file of the concurrent specification
MaxCheckFileLen == 7    \* longest file of SpecCheck
MaxIndexFileLen == 4    \* longest file of SpecIndex
MaxOps == 2             \* operations submitted in one behaviour of Spec
MaxCheckOps == 3        \* operations submitted in one behaviour of SpecCheck
MaxIndexOps == 3        \* operations submitted in one behaviour of SpecIndex
MaxPrefetch == 2        \* largest configured prefetch depth
MaxGarbage == 1         \* bytes modelled behind a block's terminating NUL
MaxChanges == 1         \* changes made to the file in one behaviour of Spec
MaxCheckChanges == 1    \* changes made to the file in a behaviour of SpecCheck
MaxIndexChanges == 1    \* changes made to the file in a behaviour of SpecIndex
MaxLiveFileLen == 3     \* longest file of SpecLive
MaxLiveOps == 1         \* operations submitted in one behaviour of SpecLive
MaxLiveChanges == 1     \* changes made to the file in a behaviour of SpecLive
MaxAccessFileLen == 4   \* longest file of SpecAccess
MaxAccessOps == 1       \* operations submitted in one behaviour of SpecAccess
MaxParseFileLen == 4    \* longest byte sequence of SpecParse
MaxFullFileLen == 9     \* longest file of SpecFull
MaxFullOps == 2         \* operations submitted in one behaviour of SpecFull
MaxGrowFileLen == 6     \* longest file of SpecGrow
MaxGrowOps == 3         \* operations submitted in one behaviour of SpecGrow
MaxGrowChanges == 2     \* changes made to the file in a behaviour of SpecGrow
MaxDrainFileLen == 7    \* longest file of SpecDrain
MaxDrainOps == 1        \* operations submitted in one behaviour of SpecDrain

\* -------------------------------------------------------- program constants
IndexingBlockSize == 2

TabStop == 8

Bytes == {"LF", "TAB", "a"}

NoCodec == "null"

Codecs == {"UTF-8", "UTF-16LE"}

LocaleCodec == "UTF-8"

\* EncodingParameters(codec): bytes per line feed and offset of the LF byte.
EncodingParameters(codec) ==
    IF codec = "UTF-16LE"
    THEN [lineFeedWidth |-> 2, beforeCrOffset |-> 0]
    ELSE [lineFeedWidth |-> 1, beforeCrOffset |-> 0]

\* A default-constructed EncodingParameters (IndexingState's member).
DefaultEncodingParameters == [lineFeedWidth |-> 1, beforeCrOffset |-> 0]

\* ------------------------------------------------------------------ helpers
Max(a, b) == IF a > b THEN a ELSE b

Min(a, b) == IF a < b THEN a ELSE b

\* C++ operator% on int: the remainder has the sign of the dividend.
CMod(a, b) == IF a >= 0 THEN a % b ELSE -((-a) % b)

\* QByteArray::left / mid on a 0-based range [from, from + n).
Mid(data, from, n) ==
    IF n <= 0 \/ from >= Len(data) THEN <<>>
    ELSE SubSeq(data, from + 1, Min(from + n, Len(data)))

SeqsUpTo(S, n) == UNION {[1..k -> S] : k \in 0..n}

\* ------------------------------------------------------------ FileDigest
ByteCode(b) == CASE b = "LF" -> 1 [] b = "TAB" -> 2 [] OTHER -> 3

RECURSIVE DigestAddData(_, _)
\* FileDigest::addData: the running digest d extended by data.
DigestAddData(d, data) ==
    IF data = <<>> THEN d
    ELSE DigestAddData(d * 4 + ByteCode(Head(data)), Tail(data))

\* A freshly constructed (or reset) FileDigest.
NewFileDigest == [acc |-> 1]

DigestOf(data) == DigestAddData(NewFileDigest.acc, data)

RECURSIVE Concat(_)
Concat(blocks) ==
    IF blocks = <<>> THEN <<>> ELSE Head(blocks) \o Concat(Tail(blocks))

RECURSIVE SumSizes(_)
SumSizes(blocks) ==
    IF blocks = <<>> THEN 0 ELSE Len(Head(blocks)) + SumSizes(Tail(blocks))

\* ------------------------------------------------------------ IndexingData
\* hash_ = {} : a value-initialised IndexedHash.
EmptyHash ==
    [size |-> 0, fullDigest |-> 0,
     headerBlocks |-> <<>>, headerDigest |-> 0, headerSize |-> 0,
     tailBlocks |-> <<>>, tailOffset |-> 0, tailSize |-> 0, tailDigest |-> 0]

\* The state of a constructed IndexingData; also what clear() leaves.
EmptyIndexingData ==
    [linePosition |-> <<>>, fakeFinalLF |-> FALSE, maxLength |-> 0,
     hash |-> EmptyHash, hashBuilder |-> NewFileDigest.acc,
     encodingGuess |-> NoCodec, encodingForced |-> NoCodec]

\* IndexingData::clear
Clear(d) == EmptyIndexingData

\* LinePositionArray::append_list: a fake final LF of the array is removed
\* before the new positions are appended; the array takes the list's flag.
AppendList(d, lp, lpFake) ==
    [d EXCEPT !.linePosition =
                 (IF d.fakeFinalLF
                  THEN SubSeq(d.linePosition, 1, Len(d.linePosition) - 1)
                  ELSE d.linePosition) \o lp,
              !.fakeFinalLF = lpFake]

TrimTailKeepsAll(tailBlocks) == tailBlocks

\* The tail window after a block was pushed: one pop when it exceeds two
\* indexing blocks.
TrimTail(tailBlocks) ==
    IF SumSizes([i \in 1..Len(tailBlocks) |-> tailBlocks[i][2]])
         > 2 * IndexingBlockSize
    THEN Tail(tailBlocks)
    ELSE tailBlocks

AddBlockToHashTailAtBlock(h, builder, block) ==
    LET full == DigestAddData(builder, block)
        hdr  == h.headerSize < IndexingBlockSize
        hb   == IF hdr THEN Append(h.headerBlocks, block) ELSE h.headerBlocks
        tb   == TrimTail(Append(h.tailBlocks, <<h.size, block>>))
        tbytes == [i \in 1..Len(tb) |-> tb[i][2]]
    IN [size |-> h.size + Len(block),
        fullDigest |-> full,
        headerBlocks |-> hb,
        headerDigest |-> IF hdr THEN DigestOf(Concat(hb)) ELSE h.headerDigest,
        headerSize |-> IF hdr THEN h.headerSize + Len(block) ELSE h.headerSize,
        tailBlocks |-> tb,
        tailOffset |-> h.size,
        tailSize |-> SumSizes(tbytes),
        tailDigest |-> DigestOf(Concat(tbytes))]

\* The hash part of IndexingData::addAll for a non-empty block.
AddBlockToHash(h, builder, block) ==
    LET full == DigestAddData(builder, block)
        hdr  == h.headerSize < IndexingBlockSize
        hb   == IF hdr THEN Append(h.headerBlocks, block) ELSE h.headerBlocks
        tb   == TrimTail(Append(h.tailBlocks, <<h.size, block>>))
        tbytes == [i \in 1..Len(tb) |-> tb[i][2]]
    IN [size |-> h.size + Len(block),
        fullDigest |-> full,
        headerBlocks |-> hb,
        headerDigest |-> IF hdr THEN DigestOf(Concat(hb)) ELSE h.headerDigest,
        headerSize |-> IF hdr THEN h.headerSize + Len(block) ELSE h.headerSize,
        tailBlocks |-> tb,
        tailOffset |-> tb[1][1],
        tailSize |-> SumSizes(tbytes),
        tailDigest |-> DigestOf(Concat(tbytes))]

\* IndexingData::addAll
AddAll(d, block, length, lp, lpFake, encoding) ==
    LET d1 == [AppendList(d, lp, lpFake) EXCEPT
                  !.maxLength = Max(d.maxLength, length)]
        d2 == IF block # <<>>
              THEN [d1 EXCEPT
                      !.hash = AddBlockToHash(d.hash, d.hashBuilder, block),
                      !.hashBuilder = DigestAddData(d.hashBuilder, block)]
              ELSE d1
    IN [d2 EXCEPT !.encodingGuess = encoding]

\* IndexingData::getNbLines
GetNbLines(d) == Len(d.linePosition)

GetPosForLineStart(d, line) == IF line = 0 THEN 0 ELSE d.linePosition[line]

\* IndexingData::getPosForLine: linePosition_.at( line ), lines counted from 0
GetPosForLine(d, line) == d.linePosition[line + 1]

\* ---------------------------------------------------------- parseDataBlock
\* The byte at 0-based index i of block.data(): the block, its terminating
\* NUL, then whatever lies behind the allocation (garbage; reading it is
\* undefined, so its content is chosen by the caller).
Mem(block, garbage, i) ==
    IF i < Len(block) THEN block[i + 1]
    ELSE IF i = Len(block) THEN "NUL"
    ELSE IF i - Len(block) <= Len(garbage) THEN garbage[i - Len(block)]
    ELSE "NUL"

RECURSIVE MemChr(_, _, _, _, _)
\* std::memchr over [from, from + n): index of the first ch, or -1.
MemChr(block, garbage, from, n, ch) ==
    IF n <= 0 THEN -1
    ELSE IF Mem(block, garbage, from) = ch THEN from
    ELSE MemChr(block, garbage, from + 1, n - 1, ch)

RECURSIVE ExpandTabs(_, _, _, _, _, _, _)

ExpandTabsIgnored(block, garbage, block_beginning, state, tab_search_start, line_size, additional_spaces) ==
    additional_spaces

\* The expandTabs lambda: returns state.additional_spaces after the search
\* that starts at tab_search_start with line_size bytes left.
ExpandTabs(block, garbage, block_beginning, state, tab_search_start, line_size, additional_spaces) ==
    LET next_tab == MemChr(block, garbage, tab_search_start, line_size, "TAB")
    IN IF next_tab = -1 THEN additional_spaces
       ELSE LET pos_within_block == next_tab - state.encodingParams.beforeCrOffset
                spaces == additional_spaces + TabStop
                            - CMod((block_beginning - state.pos)
                                     + pos_within_block + additional_spaces,
                                   TabStop)
                            - 1
                tab_substring_size == next_tab - tab_search_start
                new_size == line_size - tab_substring_size
            IN IF new_size > 0
               THEN ExpandTabs(block, garbage, block_beginning, state,
                               next_tab + 1, new_size, spaces)
               ELSE spaces

RECURSIVE ParseLoop(_, _, _, _, _)
\* The while loop of parseDataBlock; returns the state and the positions.
ParseLoop(block, garbage, block_beginning, state, line_positions) ==
    LET pos_within_block == Max(state.pos - block_beginning, 0)
        search_line_size == Len(block) - pos_within_block
        next_line_feed ==
            MemChr(block, <<>>, pos_within_block, search_line_size, "LF")
    IN IF search_line_size <= 0
       THEN [state |-> state, line_positions |-> line_positions]
       ELSE IF next_line_feed = -1
       THEN [state |-> [state EXCEPT !.additional_spaces =
                          ExpandTabs(block, garbage, block_beginning, state,
                                     pos_within_block, search_line_size,
                                     state.additional_spaces)],
             line_positions |-> line_positions]
       ELSE LET spaces == ExpandTabs(block, garbage, block_beginning, state,
                                     pos_within_block,
                                     next_line_feed - pos_within_block,
                                     state.additional_spaces)
                end == (next_line_feed - state.encodingParams.beforeCrOffset)
                         + block_beginning
                length == end - state.pos + spaces
                pos == end + state.encodingParams.lineFeedWidth
            IN ParseLoop(block, garbage, block_beginning,
                         [state EXCEPT !.end = end,
                                       !.max_length = Max(state.max_length, length),
                                       !.pos = pos,
                                       !.additional_spaces = 0],
                         Append(line_positions, pos))

\* IndexOperation::parseDataBlock
ParseDataBlock(block_beginning, block, garbage, state) ==
    ParseLoop(block, garbage, block_beginning,
              [state EXCEPT !.max_length = 0], <<>>)


\* ------------------------------------------------------------------- state
VARIABLES
    fileBytes,          \* the bytes of the attached file, as now on disk
    fileCanOpen,        \* whether QFile::open succeeds
    detectedCodec,      \* what EncodingDetector::detectEncoding answers
    prefetchBufferSize, \* Configuration::indexReadBufferSizeMb
    limits,             \* the bounds of the specification in force
    nChanges,           \* file changes made so far
    indexing_data,      \* IndexingData (LogDataWorker::indexing_data_)
    interruptRequest,   \* LogDataWorker::interruptRequest_
    ops,                \* status of every operation submitted, in order;
                        \* operationFuture_ is the last one
    opKind,             \* the operation submitted last: full, partial, check
    opForced,           \* FullIndexOperation::forcedEncoding_
    pc,                 \* position of the operation thread inside run()
    initialPosition,    \* doIndex's argument
    state,              \* doIndex's IndexingState
    result,             \* run()'s local result
    checkResult,        \* doCheckFileChanges' return value
    readerPc,           \* position of the block reader thread
    filePos,            \* QFile::pos of doIndex's file
    blockData,          \* the reader's blockData, being put
    limiterCount,       \* messages passed by blockPrefetcher, not yet decremented
    blockQueue,         \* blockQueue and the parser's input queue
    signals,            \* signals emitted by the operation now (or last) run
    opTrace,            \* history of the operation now (or last) run
    checkTrace,         \* what the last doCheckFileChanges read and compared
    indexedBytes,       \* the bytes added to the index since its last clear
    indexed,            \* whether the last index operation indexed its whole
                        \* file, and that file
    lastFull,           \* outcome of the last complete full index
    prevFull,           \* outcome of the complete full index before it
    lastAppended,       \* outcome of the last complete partial index that
                        \* followed a complete full index of a prefix
    parserPc,           \* position of the blockParser inside its MutateAccessor
                        \* scope, when addAll is followed statement by statement
    addAllArgs,         \* the arguments of the addAll call under way
    viewer              \* a thread that reads the index through a ConstAccessor

fileVars == <<fileBytes, fileCanOpen, detectedCodec, nChanges>>

cfgVars == <<prefetchBufferSize, limits>>

workerVars == <<interruptRequest, ops, opKind, opForced>>

opVars == <<pc, initialPosition, state, result, checkResult>>

graphVars == <<readerPc, filePos, blockData, limiterCount, blockQueue>>

outcomeVars == <<indexed, lastFull, prevFull, lastAppended>>

ghostVars == <<opTrace, checkTrace, indexedBytes, outcomeVars>>

accessVars == <<parserPc, addAllArgs, viewer>>

vars == <<fileVars, cfgVars, indexing_data, workerVars, opVars, graphVars,
          signals, ghostVars, accessVars>>

\* A default-constructed IndexingState.
NewIndexingState ==
    [pos |-> 0, end |-> 0, file_size |-> 0, max_length |-> 0,
     additional_spaces |-> 0, encodingParams |-> DefaultEncodingParameters,
     encodingGuess |-> NoCodec, fileTextCodec |-> NoCodec]

NoBlock == <<-1, <<>>>>

\* No addAll call is under way.
NoAddAllArgs ==
    [block |-> <<>>, length |-> 0, line_positions |-> <<>>,
     encoding |-> NoCodec, progress |-> -1, entry |-> EmptyIndexingData]

\* The viewer holds no accessor.
IdleViewer == [pc |-> "idle", base |-> EmptyIndexingData, seen |-> {}]

\* The viewer holds a ConstAccessor (a shared lock).
ConstAccessorHeld == viewer.pc = "reading"

\* The operation holds a MutateAccessor (the exclusive lock): the blockParser
\* between its lines 531 and 550, doIndex from line 563 to its end.
MutateAccessorHeld == parserPc # "idle" \/ pc = "driverClear"

NewOpTrace ==
    [interrupted |-> FALSE,   \* interrupt() was called while run() executed
     cleared |-> FALSE,       \* the driver cleared the index on cancellation
     readFailed |-> FALSE,    \* a read returned a negative count
     opened |-> FALSE,        \* doIndex opened the file
     parsed |-> <<>>,         \* <<offset, size>> of the messages blockParser
                              \* has processed, in order
     addedAfterInterrupt |-> 0,  \* blocks whose addAll ended with the
                                 \* interrupt request set
     before |-> EmptyIndexingData]  \* the index a partial index started from

NoCheckTrace ==
    [fast |-> FALSE, fastPath |-> FALSE, headerCompared |-> FALSE,
     tailCompared |-> FALSE, realFileSize |-> 0, canOpen |-> FALSE]

NoOutcome ==
    [valid |-> FALSE, file |-> <<>>, forced |-> NoCodec, lineFeedWidth |-> 0,
     linePosition |-> <<>>, fakeFinalLF |-> FALSE, maxLength |-> 0,
     hash |-> EmptyHash]

NotIndexed == [valid |-> FALSE, via |-> "none", file |-> <<>>]

InitWith(lim) ==
    /\ fileBytes \in SeqsUpTo(lim.initBytes, lim.fileLen)
    /\ fileCanOpen = TRUE
    /\ detectedCodec \in lim.codecs
    /\ prefetchBufferSize \in 1..lim.prefetch
    /\ limits = lim
    /\ nChanges = 0
    /\ indexing_data = EmptyIndexingData
    /\ interruptRequest = FALSE
    /\ ops = <<>>
    /\ opKind = "none"
    /\ opForced = NoCodec
    /\ pc = "idle"
    /\ initialPosition = 0
    /\ state = NewIndexingState
    /\ result = TRUE
    /\ checkResult = "none"
    /\ readerPc = "idle"
    /\ filePos = 0
    /\ blockData = NoBlock
    /\ limiterCount = 0
    /\ blockQueue = <<>>
    /\ signals = <<>>
    /\ opTrace = NewOpTrace
    /\ checkTrace = NoCheckTrace
    /\ indexedBytes = <<>>
    /\ indexed = NotIndexed
    /\ lastFull = NoOutcome
    /\ prevFull = NoOutcome
    /\ lastAppended = NoOutcome
    /\ parserPc = "idle"
    /\ addAllArgs = NoAddAllArgs
    /\ viewer = IdleViewer


\* --------------------------------------------------------- LogDataWorker
Running == {i \in 1..Len(ops) : ops[i] = "running"}

NoWait == TRUE

\* operationFuture_.waitForFinished(): returns once the operation submitted
\* last has finished (at once when none was submitted).
WaitForFinished == IF ops = <<>> THEN TRUE ELSE ops[Len(ops)] = "finished"

\* What indexAll, indexAdditionalLines and checkFileChanges have in common:
\* wait for the previous operation, clear the flag, launch the new one.
Submit(kind, forced) ==
    /\ WaitForFinished
    /\ Len(ops) < limits.ops
    /\ interruptRequest' = FALSE
    /\ ops' = Append(ops, "queued")
    /\ opKind' = kind
    /\ opForced' = forced
    /\ UNCHANGED <<fileVars, cfgVars, accessVars, indexing_data, opVars, graphVars,
                   signals, ghostVars>>

\* LogDataWorker::indexAll
IndexAll == \E forced \in limits.forced : Submit("full", forced)

\* LogDataWorker::indexAdditionalLines
IndexAdditionalLines == Submit("partial", opForced)

\* LogDataWorker::checkFileChanges
CheckFileChanges == Submit("check", opForced)

\* LogDataWorker::interrupt
Interrupt ==
    /\ interruptRequest' = TRUE
    /\ opTrace' = IF Running # {}
                  THEN [opTrace EXCEPT !.interrupted = TRUE]
                  ELSE opTrace
    /\ UNCHANGED <<fileVars, cfgVars, accessVars, indexing_data, ops, opKind, opForced,
                   opVars, graphVars, signals, checkTrace, indexedBytes,
                   outcomeVars>>

Start(i) == [ops EXCEPT ![i] = "running"]

\* FullIndexOperation::run up to the call of doIndex.
FullIndexRun ==
    \E i \in 1..Len(ops) :
       /\ ops[i] = "queued"
       /\ opKind = "full"
       /\ ~ConstAccessorHeld
       /\ ops' = Start(i)
       /\ signals' = << <<"progress", 0>> >>
       /\ indexing_data' = [Clear(indexing_data) EXCEPT !.encodingForced = opForced]
       /\ initialPosition' = 0
       /\ pc' = "doIndex"
       /\ opTrace' = NewOpTrace
       /\ indexedBytes' = <<>>
       /\ UNCHANGED <<fileVars, cfgVars, accessVars, interruptRequest, opKind, opForced,
                      state, result, checkResult, graphVars, checkTrace,
                      outcomeVars>>

\* PartialIndexOperation::run up to the call of doIndex.
PartialIndexRun ==
    \E i \in 1..Len(ops) :
       /\ ops[i] = "queued"
       /\ opKind = "partial"
       /\ ops' = Start(i)
       /\ initialPosition' = indexing_data.hash.size
       /\ signals' = << <<"progress", 0>> >>
       /\ pc' = "doIndex"
       /\ opTrace' = [NewOpTrace EXCEPT !.before = indexing_data]
       /\ UNCHANGED <<fileVars, cfgVars, accessVars, indexing_data, interruptRequest,
                      opKind, opForced, state, result, checkResult, graphVars,
                      checkTrace, indexedBytes, outcomeVars>>

DoIndexOpenFailsKeepsIndex ==
    /\ pc = "doIndex"
    /\ ~fileCanOpen
    /\ ~ConstAccessorHeld
    /\ indexing_data' = [indexing_data EXCEPT !.encodingGuess = LocaleCodec]
    /\ signals' = Append(signals, <<"progress", 100>>)
    /\ pc' = "result"
    /\ UNCHANGED <<fileVars, cfgVars, accessVars, workerVars, initialPosition, state,
                   result, checkResult, graphVars, opTrace, checkTrace,
                   indexedBytes, outcomeVars>>

\* doIndex when the file cannot be opened: as if it was empty.
DoIndexOpenFails ==
    /\ pc = "doIndex"
    /\ ~fileCanOpen
    /\ ~ConstAccessorHeld
    /\ indexing_data' = [Clear(indexing_data) EXCEPT !.encodingGuess = LocaleCodec]
    /\ signals' = Append(signals, <<"progress", 100>>)
    /\ pc' = "result"
    /\ indexedBytes' = <<>>
    /\ UNCHANGED <<fileVars, cfgVars, accessVars, workerVars, initialPosition, state,
                   result, checkResult, graphVars, opTrace, checkTrace,
                   outcomeVars>>

\* doIndex from the open of the file to the start of the graph.
DoIndexOpen ==
    /\ pc = "doIndex"
    /\ fileCanOpen
    /\ state' = [NewIndexingState EXCEPT
                   !.pos = initialPosition,
                   !.file_size = Len(fileBytes),
                   !.fileTextCodec =
                       IF indexing_data.encodingForced # NoCodec
                       THEN indexing_data.encodingForced
                       ELSE indexing_data.encodingGuess,
                   !.encodingGuess = indexing_data.encodingGuess]
    /\ filePos' = initialPosition
    /\ readerPc' = "loop"
    /\ pc' = "graph"
    /\ opTrace' = [opTrace EXCEPT !.opened = TRUE]
    /\ UNCHANGED <<fileVars, cfgVars, accessVars, indexing_data, workerVars,
                   initialPosition, result, checkResult, blockData,
                   limiterCount, blockQueue, signals, checkTrace,
                   indexedBytes, outcomeVars>>

\* The reader's loop exit: end of file, or the interrupt flag is set.
ReaderStops ==
    /\ readerPc = "loop"
    /\ filePos >= Len(fileBytes) \/ interruptRequest
    /\ readerPc' = "sentinel"
    /\ UNCHANGED <<fileVars, cfgVars, accessVars, indexing_data, workerVars, opVars,
                   filePos, blockData, limiterCount, blockQueue, signals,
                   ghostVars>>

ReaderReadsWhenInterrupted ==
    /\ readerPc = "loop"
    /\ filePos < Len(fileBytes)
    /\ blockData' = <<filePos, Mid(fileBytes, filePos, IndexingBlockSize)>>
    /\ filePos' = filePos + Len(Mid(fileBytes, filePos, IndexingBlockSize))
    /\ readerPc' = "put"
    /\ UNCHANGED <<fileVars, cfgVars, accessVars, indexing_data, workerVars, opVars,
                   limiterCount, blockQueue, signals, ghostVars>>

\* One read of up to IndexingBlockSize bytes.
ReaderReads ==
    /\ readerPc = "loop"
    /\ filePos < Len(fileBytes)
    /\ ~interruptRequest
    /\ blockData' = <<filePos, Mid(fileBytes, filePos, IndexingBlockSize)>>
    /\ filePos' = filePos + Len(Mid(fileBytes, filePos, IndexingBlockSize))
    /\ readerPc' = "put"
    /\ UNCHANGED <<fileVars, cfgVars, accessVars, indexing_data, workerVars, opVars,
                   limiterCount, blockQueue, signals, ghostVars>>

ReaderReadFailsNoLastBlock ==
    /\ readerPc = "loop"
    /\ filePos < Len(fileBytes)
    /\ ~interruptRequest
    /\ readerPc' = "done"
    /\ opTrace' = [opTrace EXCEPT !.readFailed = TRUE]
    /\ UNCHANGED <<fileVars, cfgVars, accessVars, indexing_data, workerVars, opVars,
                   filePos, blockData, limiterCount, blockQueue, signals,
                   checkTrace, indexedBytes, outcomeVars>>

\* A read that returns a negative count.
ReaderReadFails ==
    /\ readerPc = "loop"
    /\ filePos < Len(fileBytes)
    /\ ~interruptRequest
    /\ readerPc' = "sentinel"
    /\ opTrace' = [opTrace EXCEPT !.readFailed = TRUE]
    /\ UNCHANGED <<fileVars, cfgVars, accessVars, indexing_data, workerVars, opVars,
                   filePos, blockData, limiterCount, blockQueue, signals,
                   checkTrace, indexedBytes, outcomeVars>>

TryPutUnbounded(msg) ==
    /\ limiterCount' = limiterCount + 1
    /\ blockQueue' = Append(blockQueue, msg)

TryPutFront(msg) ==
    /\ limiterCount < prefetchBufferSize
    /\ limiterCount' = limiterCount + 1
    /\ blockQueue' = <<msg>> \o blockQueue

\* gateway.try_put through blockPrefetcher: refused at the threshold.
TryPut(msg) ==
    /\ limiterCount < prefetchBufferSize
    /\ limiterCount' = limiterCount + 1
    /\ blockQueue' = Append(blockQueue, msg)

\* The reader puts the block it read.
ReaderPuts ==
    /\ readerPc = "put"
    /\ TryPut(blockData)
    /\ readerPc' = "loop"
    /\ UNCHANGED <<fileVars, cfgVars, accessVars, indexing_data, workerVars, opVars,
                   filePos, blockData, signals, ghostVars>>

\* The reader puts the last block (-1, empty) and releases the graph.
ReaderPutsLast ==
    /\ readerPc = "sentinel"
    /\ TryPut(NoBlock)
    /\ readerPc' = "done"
    /\ UNCHANGED <<fileVars, cfgVars, accessVars, indexing_data, workerVars, opVars,
                   filePos, blockData, signals, ghostVars>>

\* IndexOperation::guessEncoding
GuessEncoding(block, st, d) ==
    LET s1 == IF st.encodingGuess = NoCodec
              THEN [st EXCEPT !.encodingGuess = detectedCodec]
              ELSE st
        codec == IF d.encodingForced # NoCodec THEN d.encodingForced
                 ELSE IF d.encodingGuess # NoCodec THEN d.encodingGuess
                 ELSE s1.encodingGuess
    IN IF s1.fileTextCodec = NoCodec
       THEN [s1 EXCEPT !.fileTextCodec = codec,
                       !.encodingParams = EncodingParameters(codec)]
       ELSE s1

\* calculateProgress
CalculateProgress(pos, size) == Min(100, (100 * pos) \div size)

\* The blockParser body for one message; the continue_msg it returns
\* decrements blockPrefetcher.
BlockParser ==
    /\ pc = "graph"
    /\ blockQueue # <<>>
    /\ Head(blockQueue)[1] >= 0 => ~ConstAccessorHeld
    /\ LET block_beginning == Head(blockQueue)[1]
           block == Head(blockQueue)[2]
           guessed == GuessEncoding(block, state, indexing_data)
       IN IF block_beginning < 0
          THEN UNCHANGED <<state, indexing_data, signals, indexedBytes>>
          ELSE IF block = <<>>
          THEN /\ state' = guessed
               /\ indexing_data' =
                     [indexing_data EXCEPT !.encodingGuess = guessed.encodingGuess]
               /\ UNCHANGED <<signals, indexedBytes>>
          ELSE \E garbage \in [1..MaxGarbage -> {"TAB", "a"}] :
                 LET parsed == ParseDataBlock(block_beginning, block, garbage, guessed)
                 IN /\ state' = parsed.state
                    /\ indexing_data' =
                          AddAll(indexing_data, block, parsed.state.max_length,
                                 parsed.line_positions, FALSE,
                                 parsed.state.encodingGuess)
                    /\ indexedBytes' = indexedBytes \o block
                    /\ signals' =
                          Append(signals,
                                 <<"progress",
                                   IF parsed.state.file_size > 0
                                   THEN CalculateProgress(parsed.state.pos,
                                                          parsed.state.file_size)
                                   ELSE 100>>)
    /\ blockQueue' = Tail(blockQueue)
    /\ limiterCount' = limiterCount - 1
    /\ opTrace' = [opTrace EXCEPT
                     !.parsed = Append(@, <<Head(blockQueue)[1],
                                            Len(Head(blockQueue)[2])>>),
                     !.addedAfterInterrupt =
                         IF interruptRequest /\ Head(blockQueue)[2] # <<>>
                         THEN @ + 1 ELSE @]
    /\ UNCHANGED <<fileVars, cfgVars, accessVars, workerVars, pc, initialPosition, result,
                   checkResult, readerPc, filePos, blockData, checkTrace,
                   outcomeVars>>

\* ------------------------------- the blockParser, statement by statement
\* The blockParser for the last block (block_beginning < 0): it returns at
\* once, no accessor taken.
BlockParserLastBlock ==
    /\ pc = "graph"
    /\ parserPc = "idle"
    /\ blockQueue # <<>>
    /\ Head(blockQueue)[1] < 0
    /\ blockQueue' = Tail(blockQueue)
    /\ limiterCount' = limiterCount - 1
    /\ opTrace' = [opTrace EXCEPT !.parsed = Append(@, <<Head(blockQueue)[1], 0>>)]
    /\ UNCHANGED <<fileVars, cfgVars, accessVars, indexing_data, workerVars,
                   opVars, readerPc, filePos, blockData, signals, checkTrace,
                   indexedBytes, outcomeVars>>

BlockParserEnterNoAccessor ==
    /\ pc = "graph"
    /\ parserPc = "idle"
    /\ blockQueue # <<>>
    /\ Head(blockQueue)[1] >= 0
    /\ LET block_beginning == Head(blockQueue)[1]
           block == Head(blockQueue)[2]
           guessed == GuessEncoding(block, state, indexing_data)
       IN IF block = <<>>
          THEN /\ state' = guessed
               /\ indexing_data' =
                     [indexing_data EXCEPT !.encodingGuess = guessed.encodingGuess]
               /\ addAllArgs' = [NoAddAllArgs EXCEPT !.entry = indexing_data]
               /\ parserPc' = "leave"
          ELSE \E garbage \in [1..MaxGarbage -> {"TAB", "a"}] :
                 LET parsed == ParseDataBlock(block_beginning, block, garbage, guessed)
                 IN /\ state' = parsed.state
                    /\ addAllArgs' =
                          [block |-> block,
                           length |-> parsed.state.max_length,
                           line_positions |-> parsed.line_positions,
                           encoding |-> parsed.state.encodingGuess,
                           progress |->
                               IF parsed.state.file_size > 0
                               THEN CalculateProgress(parsed.state.pos,
                                                      parsed.state.file_size)
                               ELSE 100,
                           entry |-> indexing_data]
                    /\ parserPc' = "maxLength"
                    /\ UNCHANGED indexing_data
    /\ UNCHANGED <<fileVars, cfgVars, workerVars, pc, initialPosition, result,
                   checkResult, graphVars, signals, ghostVars, viewer>>

\* The blockParser for a block of the file, up to the call of addAll:
\* guessEncoding, the MutateAccessor, parseDataBlock; the one store of
\* setEncodingGuess when the block is empty.
BlockParserEnter ==
    /\ pc = "graph"
    /\ parserPc = "idle"
    /\ blockQueue # <<>>
    /\ Head(blockQueue)[1] >= 0
    /\ ~ConstAccessorHeld
    /\ LET block_beginning == Head(blockQueue)[1]
           block == Head(blockQueue)[2]
           guessed == GuessEncoding(block, state, indexing_data)
       IN IF block = <<>>
          THEN /\ state' = guessed
               /\ indexing_data' =
                     [indexing_data EXCEPT !.encodingGuess = guessed.encodingGuess]
               /\ addAllArgs' = [NoAddAllArgs EXCEPT !.entry = indexing_data]
               /\ parserPc' = "leave"
          ELSE \E garbage \in [1..MaxGarbage -> {"TAB", "a"}] :
                 LET parsed == ParseDataBlock(block_beginning, block, garbage, guessed)
                 IN /\ state' = parsed.state
                    /\ addAllArgs' =
                          [block |-> block,
                           length |-> parsed.state.max_length,
                           line_positions |-> parsed.line_positions,
                           encoding |-> parsed.state.encodingGuess,
                           progress |->
                               IF parsed.state.file_size > 0
                               THEN CalculateProgress(parsed.state.pos,
                                                      parsed.state.file_size)
                               ELSE 100,
                           entry |-> indexing_data]
                    /\ parserPc' = "maxLength"
                    /\ UNCHANGED indexing_data
    /\ UNCHANGED <<fileVars, cfgVars, workerVars, pc, initialPosition, result,
                   checkResult, graphVars, signals, ghostVars, viewer>>

\* One statement of addAll: what it stores and where addAll goes next.
AddAllStatement(at, data, next) ==
    /\ parserPc = at
    /\ indexing_data' = data
    /\ parserPc' = next
    /\ UNCHANGED <<fileVars, cfgVars, workerVars, opVars, graphVars, signals,
                   ghostVars, addAllArgs, viewer>>

\* addAll: maxLength_ = qMax( maxLength_, length )
AddAllMaxLength ==
    AddAllStatement("maxLength",
                    [indexing_data EXCEPT !.maxLength = Max(@, addAllArgs.length)],
                    "linePosition")

\* addAll: linePosition_.append_list( linePosition )
AddAllLinePosition ==
    AddAllStatement("linePosition",
                    AppendList(indexing_data, addAllArgs.line_positions, FALSE),
                    "hash")

\* addAll: the digests, the windows and the size, when the block is not empty
AddAllHash ==
    AddAllStatement("hash",
                    IF addAllArgs.block # <<>>
                    THEN [indexing_data EXCEPT
                            !.hash = AddBlockToHash(indexing_data.hash,
                                                    indexing_data.hashBuilder,
                                                    addAllArgs.block),
                            !.hashBuilder = DigestAddData(indexing_data.hashBuilder,
                                                          addAllArgs.block)]
                    ELSE indexing_data,
                    "encodingGuess")

\* addAll: encodingGuess_ = encoding
AddAllEncodingGuess ==
    AddAllStatement("encodingGuess",
                    [indexing_data EXCEPT !.encodingGuess = addAllArgs.encoding],
                    "leave")

\* The blockParser after addAll: the progress signal, the end of the
\* accessor's scope, the continue_msg that decrements blockPrefetcher.
BlockParserLeave ==
    /\ parserPc = "leave"
    /\ signals' = IF addAllArgs.progress >= 0
                  THEN Append(signals, <<"progress", addAllArgs.progress>>)
                  ELSE signals
    /\ indexedBytes' = indexedBytes \o addAllArgs.block
    /\ blockQueue' = Tail(blockQueue)
    /\ limiterCount' = limiterCount - 1
    /\ opTrace' = [opTrace EXCEPT
                     !.parsed = Append(@, <<Head(blockQueue)[1],
                                            Len(Head(blockQueue)[2])>>),
                     !.addedAfterInterrupt =
                         IF interruptRequest /\ addAllArgs.block # <<>>
                         THEN @ + 1 ELSE @]
    /\ parserPc' = "idle"
    /\ addAllArgs' = NoAddAllArgs
    /\ UNCHANGED <<fileVars, cfgVars, indexing_data, workerVars, opVars,
                   readerPc, filePos, blockData, checkTrace, outcomeVars,
                   viewer>>

NonLFTerminatedOrAtEnd(st) == st.file_size >= st.pos

\* Whether a non LF terminated line ends the file.
NonLFTerminated(st) == st.file_size > st.pos

\* doIndex after wait_for_all: the fake end of line of an unterminated file.
DriverFakeLF ==
    /\ pc = "graph"
    /\ readerPc = "done"
    /\ blockQueue = <<>>
    /\ ~ConstAccessorHeld
    /\ indexing_data' =
          IF ~interruptRequest /\ NonLFTerminated(state)
          THEN AddAll(indexing_data, <<>>, 0, <<state.file_size + 1>>, TRUE,
                      state.encodingGuess)
          ELSE indexing_data
    /\ readerPc' = "idle"
    /\ pc' = "driverClear"
    /\ UNCHANGED <<fileVars, cfgVars, accessVars, workerVars, initialPosition, state,
                   result, checkResult, filePos, blockData, limiterCount,
                   blockQueue, signals, ghostVars>>

DriverClearOnReadFailure ==
    /\ pc = "driverClear"
    /\ LET stop == interruptRequest \/ opTrace.readFailed
           d == IF stop THEN Clear(indexing_data) ELSE indexing_data
       IN /\ indexing_data' = IF d.encodingGuess = NoCodec
                              THEN [d EXCEPT !.encodingGuess = LocaleCodec]
                              ELSE d
          /\ opTrace' = IF stop THEN [opTrace EXCEPT !.cleared = TRUE]
                        ELSE opTrace
          /\ indexedBytes' = IF stop THEN <<>> ELSE indexedBytes
    /\ pc' = "result"
    /\ UNCHANGED <<fileVars, cfgVars, accessVars, workerVars, initialPosition, state,
                   result, checkResult, graphVars, signals, checkTrace,
                   outcomeVars>>

\* doIndex's end: clear on interruption, default the encoding guess.
DriverClear ==
    /\ pc = "driverClear"
    /\ LET d == IF interruptRequest THEN Clear(indexing_data) ELSE indexing_data
       IN indexing_data' = IF d.encodingGuess = NoCodec
                           THEN [d EXCEPT !.encodingGuess = LocaleCodec]
                           ELSE d
    /\ opTrace' = IF interruptRequest THEN [opTrace EXCEPT !.cleared = TRUE]
                  ELSE opTrace
    /\ indexedBytes' = IF interruptRequest THEN <<>> ELSE indexedBytes
    /\ pc' = "result"
    /\ UNCHANGED <<fileVars, cfgVars, accessVars, workerVars, initialPosition, state,
                   result, checkResult, graphVars, signals, checkTrace,
                   outcomeVars>>

RunResultAlwaysSuccessful ==
    /\ pc = "result"
    /\ result' = TRUE
    /\ pc' = "emit"
    /\ UNCHANGED <<fileVars, cfgVars, accessVars, indexing_data, workerVars,
                   initialPosition, state, checkResult, graphVars, signals,
                   ghostVars>>

\* run(): result = interruptRequest_ ? false : true
RunResult ==
    /\ pc = "result"
    /\ result' = ~interruptRequest
    /\ pc' = "emit"
    /\ UNCHANGED <<fileVars, cfgVars, accessVars, indexing_data, workerVars,
                   initialPosition, state, checkResult, graphVars, signals,
                   ghostVars>>

Finish == [i \in 1..Len(ops) |-> IF ops[i] = "running" THEN "finished" ELSE ops[i]]

IsPrefix(p, q) == Len(p) <= Len(q) /\ SubSeq(q, 1, Len(p)) = p

\* The indexing state an index operation leaves, as the viewer can read it.
Outcome ==
    [valid |-> TRUE, file |-> fileBytes, forced |-> indexing_data.encodingForced,
     lineFeedWidth |-> state.encodingParams.lineFeedWidth,
     linePosition |-> indexing_data.linePosition,
     fakeFinalLF |-> indexing_data.fakeFinalLF,
     maxLength |-> indexing_data.maxLength, hash |-> indexing_data.hash]

\* The operation opened the file, read all of it and was not cancelled.
Complete == opTrace.opened /\ ~opTrace.readFailed /\ ~opTrace.cleared /\ result

\* run(): emit indexingFinished( result ) and return.
EmitIndexingFinished ==
    /\ pc = "emit"
    /\ signals' = Append(signals, <<"finished", result>>)
    /\ ops' = Finish
    /\ pc' = "idle"
    /\ indexed' =
          IF opKind = "full"
          THEN [valid |-> Complete, via |-> "full", file |-> fileBytes]
          ELSE [valid |-> Complete /\ indexed.valid
                            /\ IsPrefix(indexed.file, fileBytes),
                via |-> "append", file |-> fileBytes]
    /\ IF opKind = "full" /\ Complete
       THEN lastFull' = Outcome /\ prevFull' = lastFull
       ELSE UNCHANGED <<lastFull, prevFull>>
    /\ lastAppended' =
          IF opKind = "partial" /\ Complete /\ indexed.valid
               /\ indexed.via = "full" /\ IsPrefix(indexed.file, fileBytes)
          THEN Outcome
          ELSE lastAppended
    /\ UNCHANGED <<fileVars, cfgVars, accessVars, indexing_data, interruptRequest, opKind,
                   opForced, initialPosition, state, result, checkResult,
                   graphVars, opTrace, checkTrace, indexedBytes>>

\* ------------------------------------------------ CheckFileChangesOperation
\* The getDigest lambda: the digest of up to indexedSize bytes read from the
\* file position from.
GetDigest(file, from, indexedSize) == DigestOf(Mid(file, from, indexedSize))

IsFileModifiedIgnoresTail(fastPath, headerModified, tailModified, fullModified) ==
    IF fastPath THEN headerModified ELSE fullModified

IsFileModifiedIgnoresHeader(fastPath, headerModified, tailModified, fullModified) ==
    IF fastPath THEN tailModified ELSE fullModified

\* isFileModified: header then tail on the fast path, else the full digest.
IsFileModified(fastPath, headerModified, tailModified, fullModified) ==
    IF fastPath
    THEN (IF headerModified THEN TRUE ELSE tailModified)
    ELSE fullModified

MonitoredFileStatusNoGrowth(isFileModified, realFileSize, indexedSize) ==
    IF isFileModified THEN "Truncated"
    ELSE IF realFileSize >= indexedSize THEN "DataAdded"
    ELSE "Unchanged"

\* The status doCheckFileChanges returns once the digests are compared.
MonitoredFileStatus(isFileModified, realFileSize, indexedSize) ==
    IF isFileModified THEN "Truncated"
    ELSE IF realFileSize > indexedSize THEN "DataAdded"
    ELSE "Unchanged"

\* CheckFileChangesOperation::doCheckFileChanges: the status returned, with
\* what was read on the way.
DoCheckFileChanges(indexedHash, file, canOpen, fastModificationDetection) ==
    LET realFileSize == Len(file)
        fastPath == fastModificationDetection
                      /\ indexedHash.size > 2 * IndexingBlockSize
        headerModified ==
            GetDigest(file, 0, indexedHash.headerSize) # indexedHash.headerDigest
        tailModified ==
            GetDigest(file, indexedHash.tailOffset, indexedHash.tailSize)
              # indexedHash.tailDigest
        fullModified ==
            GetDigest(file, 0, indexedHash.size) # indexedHash.fullDigest
        isFileModified ==
            IsFileModified(fastPath, headerModified, tailModified, fullModified)
        trace == [fast |-> fastModificationDetection, fastPath |-> FALSE,
                  headerCompared |-> FALSE, tailCompared |-> FALSE,
                  realFileSize |-> realFileSize, canOpen |-> canOpen]
    IN IF realFileSize = 0 \/ realFileSize < indexedHash.size
       THEN [status |-> "Truncated", trace |-> trace]
       ELSE IF ~canOpen
       THEN [status |-> "Truncated", trace |-> trace]
       ELSE [status |-> MonitoredFileStatus(isFileModified, realFileSize,
                                            indexedHash.size),
             trace |-> [trace EXCEPT
                          !.fastPath = fastPath,
                          !.headerCompared = fastPath,
                          !.tailCompared = fastPath /\ ~headerModified]]

\* CheckFileChangesOperation::run up to the call of doCheckFileChanges.
CheckFileChangesRun ==
    \E i \in 1..Len(ops) :
       /\ ops[i] = "queued"
       /\ opKind = "check"
       /\ ops' = Start(i)
       /\ signals' = <<>>
       /\ pc' = "check"
       /\ opTrace' = NewOpTrace
       /\ UNCHANGED <<fileVars, cfgVars, accessVars, indexing_data, interruptRequest,
                      opKind, opForced, initialPosition, state, result,
                      checkResult, graphVars, checkTrace, indexedBytes,
                      outcomeVars>>

CheckFileUnlessInterrupted ==
    /\ pc = "check"
    /\ \E fastModificationDetection \in BOOLEAN :
          LET r == DoCheckFileChanges(indexing_data.hash, fileBytes,
                                      fileCanOpen, fastModificationDetection)
          IN /\ checkResult' = IF interruptRequest THEN "Truncated" ELSE r.status
             /\ checkTrace' = r.trace
    /\ pc' = "checkEmit"
    /\ UNCHANGED <<fileVars, cfgVars, accessVars, indexing_data, workerVars,
                   initialPosition, state, result, graphVars, signals,
                   opTrace, indexedBytes, outcomeVars>>

\* The call of doCheckFileChanges.
CheckFile ==
    /\ pc = "check"
    /\ \E fastModificationDetection \in BOOLEAN :
          LET r == DoCheckFileChanges(indexing_data.hash, fileBytes,
                                      fileCanOpen, fastModificationDetection)
          IN /\ checkResult' = r.status
             /\ checkTrace' = r.trace
    /\ pc' = "checkEmit"
    /\ UNCHANGED <<fileVars, cfgVars, accessVars, indexing_data, workerVars,
                   initialPosition, state, result, graphVars, signals,
                   opTrace, indexedBytes, outcomeVars>>

\* run(): emit fileCheckFinished( result ) and return.
EmitFileCheckFinished ==
    /\ pc = "checkEmit"
    /\ signals' = Append(signals, <<"fileCheck", checkResult>>)
    /\ ops' = Finish
    /\ pc' = "idle"
    /\ UNCHANGED <<fileVars, cfgVars, accessVars, indexing_data, interruptRequest, opKind,
                   opForced, initialPosition, state, result, checkResult,
                   graphVars, ghostVars>>

\* ------------------------------------------------------------ environment
\* The file changes on disk while no operation is queued or running.
Quiet == pc = "idle" /\ WaitForFinished /\ nChanges < limits.changes

FileAppended ==
    /\ Quiet
    /\ \E data \in SeqsUpTo(limits.bytes, limits.fileLen - Len(fileBytes)) \ {<<>>} :
          fileBytes' = fileBytes \o data
    /\ nChanges' = nChanges + 1
    /\ UNCHANGED <<fileCanOpen, detectedCodec, cfgVars, accessVars, indexing_data,
                   workerVars, opVars, graphVars, signals, ghostVars>>

FileModified ==
    /\ Quiet
    /\ \E i \in 1..Len(fileBytes) : \E b \in limits.bytes \ {fileBytes[i]} :
          fileBytes' = [fileBytes EXCEPT ![i] = b]
    /\ nChanges' = nChanges + 1
    /\ UNCHANGED <<fileCanOpen, detectedCodec, cfgVars, accessVars, indexing_data,
                   workerVars, opVars, graphVars, signals, ghostVars>>

FileTruncated ==
    /\ Quiet
    /\ \E n \in 0..(Len(fileBytes) - 1) : fileBytes' = SubSeq(fileBytes, 1, n)
    /\ nChanges' = nChanges + 1
    /\ UNCHANGED <<fileCanOpen, detectedCodec, cfgVars, accessVars, indexing_data,
                   workerVars, opVars, graphVars, signals, ghostVars>>

FileOpenChanges ==
    /\ Quiet
    /\ fileCanOpen' = ~fileCanOpen
    /\ nChanges' = nChanges + 1
    /\ UNCHANGED <<fileBytes, detectedCodec, cfgVars, accessVars, indexing_data,
                   workerVars, opVars, graphVars, signals, ghostVars>>

\* ------------------------------------------------ blocks parsed in a row
\* parseDataBlock applied to the next block of the file, the block of any
\* size from one byte to the rest of the file, with the parser state carried
\* from the block before (guessEncoding first, as in the blockParser); the
\* line positions and the longest line are stored as addAll stores them.
\* The digests are left alone: their windows are sized for blocks of at
\* most IndexingBlockSize bytes and the parse does not read them.
ParseNextBlock ==
    /\ pc = "idle"
    /\ ops = <<>>
    /\ filePos < Len(fileBytes)
    /\ \E n \in 1..(Len(fileBytes) - filePos) :
       \E garbage \in [1..MaxGarbage -> {"TAB", "a"}] :
          LET block == Mid(fileBytes, filePos, n)
              guessed == GuessEncoding(block,
                                       [state EXCEPT !.file_size = Len(fileBytes)],
                                       indexing_data)
              parsed == ParseDataBlock(filePos, block, garbage, guessed)
          IN /\ state' = parsed.state
             /\ indexing_data' =
                   [AppendList(indexing_data, parsed.line_positions, FALSE)
                      EXCEPT !.maxLength = Max(@, parsed.state.max_length),
                             !.encodingGuess = parsed.state.encodingGuess]
             /\ filePos' = filePos + n
             /\ indexedBytes' = indexedBytes \o block
             /\ opTrace' = [opTrace EXCEPT !.parsed = Append(@, <<filePos, n>>)]
    /\ UNCHANGED <<fileVars, cfgVars, accessVars, workerVars, pc,
                   initialPosition, result, checkResult, readerPc, blockData,
                   limiterCount, blockQueue, signals, checkTrace, outcomeVars>>

\* ------------------------------------------------------------- the viewer
ViewFields == {"nb_lines", "max_length", "indexed_size", "encoding_guess"}

\* What a ConstAccessor's read methods return.
ViewRead(d, f) ==
    CASE f = "nb_lines" -> Len(d.linePosition)
      [] f = "max_length" -> d.maxLength
      [] f = "indexed_size" -> d.hash.size
      [] f = "encoding_guess" -> d.encodingGuess

\* The viewer takes a ConstAccessor: a shared lock, no MutateAccessor held.
ViewerAcquire ==
    /\ viewer.pc = "idle"
    /\ ~MutateAccessorHeld
    /\ viewer' = [pc |-> "reading", base |-> indexing_data, seen |-> {}]
    /\ UNCHANGED <<fileVars, cfgVars, indexing_data, workerVars, opVars,
                   graphVars, signals, ghostVars, parserPc, addAllArgs>>

\* One read through the accessor held.
ViewerReads ==
    /\ viewer.pc = "reading"
    /\ \E f \in ViewFields \ {r[1] : r \in viewer.seen} :
          viewer' = [viewer EXCEPT
                       !.seen = @ \cup {<<f, ViewRead(indexing_data, f)>>}]
    /\ UNCHANGED <<fileVars, cfgVars, indexing_data, workerVars, opVars,
                   graphVars, signals, ghostVars, parserPc, addAllArgs>>

\* The viewer's accessor goes out of scope.
ViewerRelease ==
    /\ viewer.pc = "reading"
    /\ viewer' = IdleViewer
    /\ UNCHANGED <<fileVars, cfgVars, indexing_data, workerVars, opVars,
                   graphVars, signals, ghostVars, parserPc, addAllArgs>>

\* ---------------------------------------------------------- specifications
IndexOperation ==
    \/ FullIndexRun
    \/ PartialIndexRun
    \/ DoIndexOpenFails
    \/ DoIndexOpen
    \/ ReaderStops
    \/ ReaderReads
    \/ ReaderPuts
    \/ ReaderPutsLast
    \/ BlockParser
    \/ DriverFakeLF
    \/ DriverClear
    \/ RunResult
    \/ EmitIndexingFinished

CheckOperation ==
    \/ CheckFileChangesRun
    \/ CheckFile
    \/ EmitFileCheckFinished

Init ==
    InitWith([ops |-> MaxOps, prefetch |-> MaxPrefetch, changes |-> MaxChanges,
              fileLen |-> MaxFileLen, initBytes |-> {"LF", "a"},
              bytes |-> {"LF", "a"},
              codecs |-> Codecs, forced |-> {NoCodec, "UTF-16LE"}])

Next ==
    \/ IndexAll
    \/ IndexAdditionalLines
    \/ CheckFileChanges
    \/ Interrupt
    \/ IndexOperation
    \/ CheckOperation
    \/ ReaderReadFails
    \/ FileAppended
    \/ FileOpenChanges

\* The worker with interrupts, read failures and a changing file.
Spec == Init /\ [][Next]_vars

InitCheck ==
    InitWith([ops |-> MaxCheckOps, prefetch |-> 1, changes |-> MaxCheckChanges,
              fileLen |-> MaxCheckFileLen, initBytes |-> {"a"},
              bytes |-> {"LF", "a"},
              codecs |-> {"UTF-8"}, forced |-> {NoCodec}])

NextCheck ==
    \/ IndexAll
    \/ IndexAdditionalLines
    \/ CheckFileChanges
    \/ IndexOperation
    \/ CheckOperation
    \/ FileAppended
    \/ FileModified
    \/ FileTruncated
    \/ FileOpenChanges

\* Index operations, then a change of the file, then a check: files long
\* enough for the header and tail windows to leave bytes between them.
SpecCheck == InitCheck /\ [][NextCheck]_vars

InitIndex ==
    InitWith([ops |-> MaxIndexOps, prefetch |-> 1, changes |-> MaxIndexChanges,
              fileLen |-> MaxIndexFileLen, initBytes |-> Bytes,
              bytes |-> Bytes,
              codecs |-> Codecs, forced |-> {NoCodec}])

NextIndex ==
    \/ IndexAll
    \/ IndexAdditionalLines
    \/ IndexOperation
    \/ FileAppended
    \/ FileOpenChanges

\* Full and partial index operations run to their end on a growing file of
\* lines and tabs.
SpecIndex == InitIndex /\ [][NextIndex]_vars

\* The steps of the block reader thread.
ReaderThread ==
    \/ ReaderStops
    \/ ReaderReads
    \/ ReaderReadFails
    \/ ReaderPuts
    \/ ReaderPutsLast

\* The steps of the operation thread outside the graph.
DriverThread ==
    \/ FullIndexRun
    \/ PartialIndexRun
    \/ DoIndexOpenFails
    \/ DoIndexOpen
    \/ DriverFakeLF
    \/ DriverClear
    \/ RunResult
    \/ EmitIndexingFinished

InitLive ==
    InitWith([ops |-> MaxLiveOps, prefetch |-> MaxPrefetch,
              changes |-> MaxLiveChanges, fileLen |-> MaxLiveFileLen,
              initBytes |-> {"LF", "a"}, bytes |-> {"LF", "a"},
              codecs |-> {"UTF-8"}, forced |-> {NoCodec}])

NextLive ==
    \/ IndexAll
    \/ IndexAdditionalLines
    \/ Interrupt
    \/ IndexOperation
    \/ ReaderReadFails
    \/ FileOpenChanges

\* Index operations with interrupts and read failures, the reader thread,
\* the parser and the operation thread each scheduled fairly.
SpecLive ==
    /\ InitLive
    /\ [][NextLive]_vars
    /\ WF_vars(ReaderThread)
    /\ WF_vars(BlockParser)
    /\ WF_vars(DriverThread)

\* Full index operations with addAll followed statement by statement and a
\* viewer that reads the index while they run.
InitAccess ==
    InitWith([ops |-> MaxAccessOps, prefetch |-> MaxPrefetch, changes |-> 0,
              fileLen |-> MaxAccessFileLen, initBytes |-> {"LF", "a"},
              bytes |-> {"LF", "a"},
              codecs |-> {"UTF-8"}, forced |-> {NoCodec}])

NextAccess ==
    \/ IndexAll
    \/ Interrupt
    \/ FullIndexRun
    \/ DoIndexOpen
    \/ ReaderStops
    \/ ReaderReads
    \/ ReaderPuts
    \/ ReaderPutsLast
    \/ BlockParserLastBlock
    \/ BlockParserEnter
    \/ AddAllMaxLength
    \/ AddAllLinePosition
    \/ AddAllHash
    \/ AddAllEncodingGuess
    \/ BlockParserLeave
    \/ DriverFakeLF
    \/ DriverClear
    \/ RunResult
    \/ EmitIndexingFinished
    \/ ViewerAcquire
    \/ ViewerReads
    \/ ViewerRelease

SpecAccess == InitAccess /\ [][NextAccess]_vars

\* parseDataBlock applied to a byte sequence cut into blocks in every way.
InitParse ==
    InitWith([ops |-> 0, prefetch |-> 1, changes |-> 0,
              fileLen |-> MaxParseFileLen, initBytes |-> Bytes,
              bytes |-> Bytes,
              codecs |-> {"UTF-8"}, forced |-> {NoCodec}])

NextParse == ParseNextBlock

SpecParse == InitParse /\ [][NextParse]_vars

\* Full indexes of a file of lines of up to MaxFullFileLen bytes, each run
\* to its end.
InitFull ==
    InitWith([ops |-> MaxFullOps, prefetch |-> MaxPrefetch, changes |-> 0,
              fileLen |-> MaxFullFileLen, initBytes |-> {"LF", "a"},
              bytes |-> {"LF", "a"},
              codecs |-> {"UTF-8"}, forced |-> {NoCodec}])

NextFull ==
    \/ IndexAll
    \/ FullIndexRun
    \/ DoIndexOpen
    \/ ReaderStops
    \/ ReaderReads
    \/ ReaderPuts
    \/ ReaderPutsLast
    \/ BlockParser
    \/ DriverFakeLF
    \/ DriverClear
    \/ RunResult
    \/ EmitIndexingFinished

SpecFull == InitFull /\ [][NextFull]_vars

\* A file of lines that grows twice between index operations, each run to
\* its end: the last block of every operation may be shorter than one
\* indexing block, so short blocks end up between full ones.
InitGrow ==
    InitWith([ops |-> MaxGrowOps, prefetch |-> 1, changes |-> MaxGrowChanges,
              fileLen |-> MaxGrowFileLen, initBytes |-> {"LF", "a"},
              bytes |-> {"LF", "a"},
              codecs |-> {"UTF-8"}, forced |-> {NoCodec}])

NextGrow ==
    \/ IndexAll
    \/ IndexAdditionalLines
    \/ FullIndexRun
    \/ PartialIndexRun
    \/ DoIndexOpen
    \/ ReaderStops
    \/ ReaderReads
    \/ ReaderPuts
    \/ ReaderPutsLast
    \/ BlockParser
    \/ DriverFakeLF
    \/ DriverClear
    \/ RunResult
    \/ EmitIndexingFinished
    \/ FileAppended

SpecGrow == InitGrow /\ [][NextGrow]_vars

\* One full index of a file of several blocks, interrupted at any moment.
InitDrain ==
    InitWith([ops |-> MaxDrainOps, prefetch |-> MaxPrefetch, changes |-> 0,
              fileLen |-> MaxDrainFileLen, initBytes |-> {"LF", "a"},
              bytes |-> {"LF", "a"},
              codecs |-> {"UTF-8"}, forced |-> {NoCodec}])

NextDrain ==
    \/ IndexAll
    \/ Interrupt
    \/ FullIndexRun
    \/ DoIndexOpen
    \/ ReaderStops
    \/ ReaderReads
    \/ ReaderPuts
    \/ ReaderPutsLast
    \/ BlockParser
    \/ DriverFakeLF
    \/ DriverClear
    \/ RunResult
    \/ EmitIndexingFinished

SpecDrain == InitDrain /\ [][NextDrain]_vars

\* ------------------------------------------------------------------ claims
Last(q) == q[Len(q)]

NbLines == Len(indexing_data.linePosition)

IndexedSize == indexing_data.hash.size

\* C1: operations run one at a time: no operation has started while an
\* operation submitted before it has not finished, so at most one run()
\* executes at any moment.
C1_OneOperationAtATime ==
    /\ Cardinality(Running) <= 1
    /\ \A i, j \in 1..Len(ops) :
          (i < j /\ ops[j] # "queued") => ops[i] = "finished"

\* A second operation runs, after the first one has finished.
C1_Witness == Len(ops) = 2 /\ ops[2] = "running" /\ ops[1] = "finished"

FullIndexOver ==
    pc = "idle" /\ opKind = "full" /\ ops # <<>> /\ Last(ops) = "finished"

\* C2: once a full index during which interrupt() was called, at any point
\* before its terminal signal, has emitted that signal, the index is empty.
C2_CancellationLeavesEmpty ==
    (FullIndexOver /\ opTrace.interrupted) => (NbLines = 0 /\ IndexedSize = 0)

\* C3: the terminal status of an index operation agrees with the index:
\* Finished(Interrupted) comes with an index cleared by the driver,
\* Finished(Successful) with an index that was not cleared on cancellation.
C3_StatusAgreesWithIndex ==
    (pc = "idle" /\ opKind \in {"full", "partial"} /\ signals # <<>>
       /\ Last(signals)[1] = "finished")
    => IF Last(signals)[2]
       THEN ~opTrace.cleared
       ELSE NbLines = 0 /\ IndexedSize = 0


\* doCheckFileChanges has just returned: file and index are as it read them.
AtCheckResult == pc = "checkEmit"

FastPathTaken ==
    checkTrace.fast /\ IndexedSize > 2 * IndexingBlockSize

\* C4: the status check_file_changes computes when the fast path is not
\* taken, written as a function of fingerprint and file.
C4_Decision ==
    LET h == indexing_data.hash
        real_size == Len(fileBytes)
    IN IF \/ real_size = 0
          \/ real_size < h.size
          \/ ~fileCanOpen
          \/ DigestOf(SubSeq(fileBytes, 1, Min(h.size, real_size))) # h.fullDigest
       THEN "Truncated"
       ELSE IF real_size > h.size THEN "DataAdded" ELSE "Unchanged"

\* C4: with the fast path not taken, check_file_changes returns Truncated,
\* DataAdded or Unchanged exactly as that decision function says.
C4_FullPathDecision ==
    (AtCheckResult /\ ~FastPathTaken) => checkResult = C4_Decision

\* Fast detection is on but the indexed range is too short for the fast
\* path, and the file has grown.
C4_Witness ==
    /\ AtCheckResult
    /\ checkTrace.fast
    /\ IndexedSize > 0
    /\ IndexedSize <= 2 * IndexingBlockSize
    /\ checkResult = "DataAdded"

\* The positions at which the file now differs from the file last indexed.
ModifiedAt ==
    {i \in 1..Min(Len(fileBytes), Len(indexed.file)) :
        fileBytes[i] # indexed.file[i]}

\* The file last indexed has since been changed in exactly one byte, inside
\* the indexed range, its length kept.
SingleByteModified ==
    /\ Len(fileBytes) = Len(indexed.file)
    /\ IsPrefix(indexedBytes, indexed.file)
    /\ Cardinality(ModifiedAt) = 1
    /\ \A i \in ModifiedAt : i <= IndexedSize

InHeaderWindow(i) == i <= indexing_data.hash.headerSize

InTailWindow(i) ==
    /\ i > indexing_data.hash.tailOffset
    /\ i <= indexing_data.hash.tailOffset + indexing_data.hash.tailSize

\* C5 as claimed: a single byte modified inside the indexed range makes
\* check_file_changes return Truncated, fast detection on or off.
C5_FingerprintSensitivity ==
    (AtCheckResult /\ SingleByteModified) => checkResult = "Truncated"

\* C5 as amended: a single byte modified inside the indexed range makes
\* check_file_changes return Truncated when the fast path is not taken, or
\* when the byte lies inside the header window or the tail window.
C5_SensitivityWhereDigested ==
    (/\ AtCheckResult
     /\ SingleByteModified
     /\ \/ ~FastPathTaken
        \/ \A i \in ModifiedAt : InHeaderWindow(i) \/ InTailWindow(i))
    => checkResult = "Truncated"

\* With fast detection off, a byte between the header and tail windows of a
\* long file was modified, and the check answered Truncated.
C5_Witness ==
    /\ AtCheckResult
    /\ SingleByteModified
    /\ ~checkTrace.fast
    /\ IndexedSize > 2 * IndexingBlockSize
    /\ \A i \in ModifiedAt : ~InHeaderWindow(i) /\ ~InTailWindow(i)
    /\ checkResult = "Truncated"

HeaderWindowModified ==
    Mid(fileBytes, 0, indexing_data.hash.headerSize)
      # Mid(indexedBytes, 0, indexing_data.hash.headerSize)

TailWindowModified ==
    Mid(fileBytes, indexing_data.hash.tailOffset, indexing_data.hash.tailSize)
      # Mid(indexedBytes, indexing_data.hash.tailOffset,
            indexing_data.hash.tailSize)

\* C6: on the fast path a modification inside the header window or inside
\* the tail window gives Truncated, and after a header mismatch the tail is
\* not compared.
C6_FastPathWindows ==
    (AtCheckResult /\ FastPathTaken)
    => /\ (HeaderWindowModified \/ TailWindowModified)
            => checkResult = "Truncated"
       /\ (HeaderWindowModified /\ checkTrace.fastPath)
            => (checkTrace.headerCompared /\ ~checkTrace.tailCompared)

\* The fast path met a modified header window and did not read the tail.
C6_Witness ==
    /\ AtCheckResult
    /\ FastPathTaken
    /\ HeaderWindowModified
    /\ ~TailWindowModified
    /\ checkTrace.headerCompared
    /\ ~checkTrace.tailCompared
    /\ checkResult = "Truncated"

\* The last index operation, and those before it, indexed the whole file.
WholeFileIndexed == indexed.valid /\ indexedBytes = indexed.file

C7_Soundness ==
    /\ fileBytes = indexed.file => checkResult = "Unchanged"
    /\ (IsPrefix(indexed.file, fileBytes) /\ fileBytes # indexed.file)
          => checkResult = "DataAdded"

\* C7 as claimed: with fast detection on, for every indexed file, the empty
\* one included, the check answers Unchanged when the file is unchanged and
\* DataAdded when bytes were only appended.
C7_FastPathSoundness ==
    (AtCheckResult /\ checkTrace.fast /\ fileCanOpen /\ WholeFileIndexed)
    => C7_Soundness

\* C7 as amended: with fast detection on, for every indexed file that is
\* not empty, the check answers Unchanged when the file is unchanged and
\* DataAdded when bytes were only appended.
C7_FastPathSoundnessNonEmpty ==
    (/\ AtCheckResult
     /\ checkTrace.fast
     /\ fileCanOpen
     /\ WholeFileIndexed
     /\ indexed.file # <<>>)
    => C7_Soundness

\* The fast path found a file indexed by a full then a partial index
\* unchanged.
C7_Witness ==
    /\ AtCheckResult
    /\ FastPathTaken
    /\ WholeFileIndexed
    /\ indexed.via = "append"
    /\ checkTrace.tailCompared
    /\ checkResult = "Unchanged"


\* The indexing state the viewer reads, as the append law compares it.
IndexingStateOf(o) ==
    <<o.linePosition, o.maxLength, o.hash.size, o.hash.fullDigest,
      o.hash.headerSize, o.hash.headerDigest, o.hash.tailOffset,
      o.hash.tailSize, o.hash.tailDigest>>

\* C8: a full index of a prefix of F followed by a partial index of F leaves
\* the indexing state a single full index of F leaves.
C8_AppendLaw ==
    (/\ lastAppended.valid
     /\ lastFull.valid
     /\ lastFull.file = lastAppended.file
     /\ lastFull.forced = lastAppended.forced)
    => IndexingStateOf(lastAppended) = IndexingStateOf(lastFull)

\* C9: two full index operations on the same file leave the same number of
\* lines, maximal length, full digest and line positions.
C9_Idempotence ==
    (/\ prevFull.valid
     /\ lastFull.valid
     /\ prevFull.file = lastFull.file
     /\ prevFull.forced = lastFull.forced)
    => /\ prevFull.linePosition = lastFull.linePosition
       /\ prevFull.maxLength = lastFull.maxLength
       /\ prevFull.hash.fullDigest = lastFull.hash.fullDigest

RECURSIVE CountLF(_)
CountLF(data) ==
    IF data = <<>> THEN 0
    ELSE (IF Head(data) = "LF" THEN 1 ELSE 0) + CountLF(Tail(data))

LineCountLaw(o) ==
    Len(o.linePosition)
      = CountLF(o.file)
          + (IF o.file # <<>> /\ Last(o.file) # "LF" THEN 1 ELSE 0)

\* C10 as claimed: after a complete full index the number of lines is the
\* number of newline bytes, plus one for an unterminated last line.
C10_LineCountLaw == lastFull.valid => LineCountLaw(lastFull)

\* C10 as amended: after a complete full index that parsed with a line feed
\* one byte wide, the number of lines is the number of newline bytes, plus
\* one for an unterminated last line.
C10_LineCountLawOneByteLF ==
    (lastFull.valid /\ lastFull.lineFeedWidth = 1) => LineCountLaw(lastFull)

\* A complete full index of a file of several blocks holding two newlines
\* and an unterminated last line.
C10_Witness ==
    /\ lastFull.valid
    /\ lastFull.lineFeedWidth = 1
    /\ Len(lastFull.file) > IndexingBlockSize
    /\ CountLF(lastFull.file) >= 2
    /\ Last(lastFull.file) # "LF"
    /\ lastFull.fakeFinalLF
    /\ Len(lastFull.linePosition) = CountLF(lastFull.file) + 1


StrictlyIncreasing(q) == \A i \in 1..(Len(q) - 1) : q[i] < q[i + 1]

\* C11: in every reachable state, whatever full and partial index
\* operations, read failures and cancellations came before, the line
\* offsets of the index are strictly increasing.
C11_MonotoneOffsets == StrictlyIncreasing(indexing_data.linePosition)


\* A full or partial index operation has emitted its terminal signal and no
\* operation was submitted since.
IndexOver ==
    /\ pc = "idle"
    /\ opKind \in {"full", "partial"}
    /\ ops # <<>>
    /\ Last(ops) = "finished"

OpenFailedOutcome ==
    /\ NbLines = 0
    /\ IndexedSize = 0
    /\ indexing_data.encodingGuess = LocaleCodec
    /\ \E i \in 1..Len(signals) : signals[i] = <<"progress", 100>>

\* C12 as claimed: an index operation that could not open the file leaves
\* an empty index with the platform default encoding as guess, has emitted
\* progress(100), and reports Successful.
C12_OpenFailure ==
    (IndexOver /\ ~opTrace.opened)
    => (OpenFailedOutcome /\ Last(signals) = <<"finished", TRUE>>)

\* C12 as amended: an index operation that could not open the file leaves
\* an empty index with the platform default encoding as guess, has emitted
\* progress(100), and reports Successful unless interrupt() was called
\* since the operation was submitted; it reports Interrupted only after
\* such a call.
C12_OpenFailureUnlessCancelled ==
    (IndexOver /\ ~opTrace.opened)
    => /\ OpenFailedOutcome
       /\ Last(signals)[1] = "finished"
       /\ ~interruptRequest => Last(signals)[2]

\* A partial index that followed a complete full index of a file with
\* lines could not open the file, and reported Successful.
C12_Witness ==
    /\ IndexOver
    /\ opKind = "partial"
    /\ ~opTrace.opened
    /\ lastFull.valid
    /\ lastFull.linePosition # <<>>
    /\ NbLines = 0
    /\ signals = << <<"progress", 0>>, <<"progress", 100>>, <<"finished", TRUE>> >>


RECURSIVE LineStarts(_, _)
\* The offsets that follow the newline bytes of data, a one-byte line feed
\* assumed: the line starts a parse of data records, in order.
LineStarts(data, n) ==
    IF n = 0 THEN <<>>
    ELSE IF data[n] = "LF" THEN Append(LineStarts(data, n - 1), n)
    ELSE LineStarts(data, n - 1)

\* The bytes of the file the reader had read when it stopped.
BytesRead == Mid(fileBytes, 0, filePos)

\* C13: once an index operation in which a read failed is over, the flag
\* not set, it has reported Successful and the index holds what the blocks
\* read before the failure gave: their size, their digest and, for a
\* one-byte line feed, the line starts found in them.
C13_ReadFailureRetains ==
    (IndexOver /\ opTrace.readFailed /\ ~interruptRequest)
    => /\ Last(signals) = <<"finished", TRUE>>
       /\ IndexedSize = filePos
       /\ IndexedSize > 0 => indexing_data.hash.fullDigest = DigestOf(BytesRead)
       /\ detectedCodec = "UTF-8"
            => IsPrefix(LineStarts(BytesRead, filePos), indexing_data.linePosition)

\* The second read of a three-byte file failed: the line and the two bytes
\* of the first block are in the index, and the operation was Successful.
C13_Witness ==
    /\ IndexOver
    /\ opTrace.readFailed
    /\ ~opTrace.interrupted
    /\ Len(fileBytes) = 3
    /\ filePos = IndexingBlockSize
    /\ IndexedSize = IndexingBlockSize
    /\ LineStarts(BytesRead, filePos) # <<>>
    /\ IsPrefix(LineStarts(BytesRead, filePos), indexing_data.linePosition)
    /\ Last(signals) = <<"finished", TRUE>>


\* C14: the messages accepted from the reader and not yet finished by the
\* parser are never more than the prefetch depth; a message is accepted
\* only below that depth and takes one credit; a credit comes back one at a
\* time, in the step in which the parser finishes the oldest message.
C14_PrefetchWindow ==
    /\ [](Len(blockQueue) = limiterCount /\ limiterCount <= prefetchBufferSize)
    /\ [][/\ limiterCount' > limiterCount
               => /\ limiterCount < prefetchBufferSize
                  /\ limiterCount' = limiterCount + 1
                  /\ Len(blockQueue') = Len(blockQueue) + 1
          /\ limiterCount' < limiterCount
               => /\ limiterCount' = limiterCount - 1
                  /\ blockQueue' = Tail(blockQueue)]_vars

\* The window is full at the largest depth and the reader waits to put the
\* last block.
C14_Witness ==
    /\ prefetchBufferSize = MaxPrefetch
    /\ limiterCount = prefetchBufferSize
    /\ readerPc = "sentinel"
    /\ Len(blockQueue) = MaxPrefetch


\* C15: within one index operation the parser processes the data blocks in
\* ascending offset order, the first at the operation's initial position
\* and each where the one before it ended, and it processes nothing after
\* the last block (-1, empty).
C15_BlockOrder ==
    LET parsed == opTrace.parsed
    IN \A i \in 1..Len(parsed) :
          /\ parsed[i][1] < 0 => (i = Len(parsed) /\ parsed[i][2] = 0)
          /\ (parsed[i][1] >= 0 /\ i = 1) => parsed[i][1] = initialPosition
          /\ (parsed[i][1] >= 0 /\ i > 1)
                => /\ parsed[i][1] > parsed[i - 1][1]
                   /\ parsed[i][1] = parsed[i - 1][1] + parsed[i - 1][2]

\* A full index of a file of two blocks is over: the parser was given both
\* blocks in order, then the last block.
C15_Witness ==
    /\ IndexOver
    /\ opKind = "full"
    /\ opTrace.parsed = << <<0, IndexingBlockSize>>, <<IndexingBlockSize, 1>>, <<-1, 0>> >>


\* The last blocks (-1, empty) among the messages the parser has processed
\* in the operation now (or last) run.
Sentinels == {i \in 1..Len(opTrace.parsed) : opTrace.parsed[i][1] < 0}

\* C16: under fair scheduling of the reader, the parser and the operation
\* thread, whatever the file size, the prefetch depth and the moment of an
\* interrupt or of a read failure: the reader's one last block reaches the
\* parser, the graph is drained and every credit is back when the operation
\* is over, and every operation submitted emits its terminal signal.
C16_PipelineTerminates ==
    /\ [](/\ Cardinality(Sentinels) <= 1
          /\ (IndexOver /\ opTrace.opened)
               => /\ Cardinality(Sentinels) = 1
                  /\ blockQueue = <<>>
                  /\ limiterCount = 0)
    /\ \A n \in 1..MaxLiveOps :
          (Len(ops) = n /\ ops[n] # "finished")
             ~> (/\ Len(ops) = n
                 /\ ops[n] = "finished"
                 /\ pc = "idle"
                 /\ Last(signals)[1] = "finished")

\* With a prefetch depth of one, an operation interrupted before the reader
\* had read the whole file is over.
C16_Witness ==
    /\ IndexOver
    /\ prefetchBufferSize = 1
    /\ opTrace.opened
    /\ opTrace.interrupted
    /\ Len(opTrace.parsed) >= 2
    /\ Cardinality(Sentinels) = 1
    /\ filePos < Len(fileBytes)

\* ---------------------------------------------------------------------- C17
\* The operation the signals belong to has started: it runs or it is over.
OpStarted == ops # <<>> /\ Last(ops) \in {"running", "finished"}

SignalKinds(kind) == {i \in 1..Len(signals) : signals[i][1] = kind}

\* C17: a full or partial index operation emits progress(0) first and its
\* Finished signal exactly once, as its last signal, when it ends; the value
\* of Finished is the negation of the interrupt flag read just before the
\* emission.  A check operation emits exactly one fileCheckFinished, when it
\* ends, and neither a progress nor a Finished signal.  Signals are only ever
\* appended while an operation runs.
C17_SignalOrder ==
    /\ []((OpStarted /\ opKind \in {"full", "partial"})
            => /\ signals # <<>>
               /\ signals[1] = <<"progress", 0>>
               /\ SignalKinds("fileCheck") = {}
               /\ SignalKinds("finished") \subseteq {Len(signals)}
               /\ (Last(ops) = "finished") <=> (Last(signals)[1] = "finished")
               /\ (Last(ops) = "finished" /\ ~interruptRequest)
                     => Last(signals)[2]
               /\ (Last(ops) = "finished" /\ opTrace.cleared)
                     => ~Last(signals)[2])
    /\ []((OpStarted /\ opKind = "check")
            => /\ SignalKinds("progress") = {}
               /\ SignalKinds("finished") = {}
               /\ Len(signals) <= 1
               /\ (Last(ops) = "finished")
                     <=> (Len(signals) = 1 /\ signals[1][1] = "fileCheck"))
    /\ [][/\ (pc = "result" /\ pc' # "result") => result' = ~interruptRequest
          /\ (pc = "emit" /\ pc' # "emit")
                => signals' = Append(signals, <<"finished", result>>)
          /\ signals' # signals
                => \/ /\ ops # <<>> /\ Last(ops) = "running"
                      /\ IsPrefix(signals, signals')
                      /\ Len(signals') = Len(signals) + 1
                   \/ /\ ops # <<>> /\ Last(ops) = "queued"
                      /\ Last(ops') = "running"
                      /\ Len(signals') <= 1]_vars

\* An index operation with several progress signals ended unsuccessfully
\* after a cancellation.
C17_Witness ==
    /\ opKind \in {"full", "partial"}
    /\ ops # <<>> /\ Last(ops) = "finished"
    /\ Cardinality(SignalKinds("progress")) >= 3
    /\ Last(signals) = <<"finished", FALSE>>

\* ---------------------------------------------------------------------- C18
RECURSIVE LongestLine(_, _)
\* The length of the longest of the first n lines that start where starts
\* says, the first line at offset 0, a one-byte line feed assumed.
LongestLine(starts, n) ==
    IF n = 0 THEN 0
    ELSE Max(LongestLine(starts, n - 1),
             starts[n] - 1 - (IF n = 1 THEN 0 ELSE starts[n - 1]))

\* The index d describes the bytes data, all of it: the size, the digest,
\* the line starts, the longest line and a guess of the encoding.
Coherent(d, data) ==
    LET starts == LineStarts(data, Len(data))
    IN /\ d.hash.size = Len(data)
       /\ data # <<>> => d.hash.fullDigest = DigestOf(data)
       /\ IsPrefix(starts, d.linePosition)
       /\ Len(d.linePosition) = Len(starts) + (IF d.fakeFinalLF THEN 1 ELSE 0)
       /\ d.maxLength = LongestLine(starts, Len(starts))
       /\ data # <<>> => d.encodingGuess # NoCodec

\* C18: while the viewer holds a ConstAccessor no MutateAccessor is held and
\* the index does not change; the index it reads is, in every field, the one
\* it found when it took the accessor, and that index describes whole blocks:
\* line starts, longest line, size, digest and encoding guess are those of
\* the bytes indexed so far.  The statements of one addAll, taken together,
\* have the effect of addAll.
C18_NoTornState ==
    /\ ConstAccessorHeld
         => /\ ~MutateAccessorHeld
            /\ indexing_data = viewer.base
            /\ \A r \in viewer.seen : r[2] = ViewRead(viewer.base, r[1])
            /\ Coherent(viewer.base, indexedBytes)
    /\ (parserPc = "leave" /\ addAllArgs.block # <<>>)
         => indexing_data =
               AddAll(addAllArgs.entry, addAllArgs.block, addAllArgs.length,
                      addAllArgs.line_positions, FALSE, addAllArgs.encoding)

\* The viewer has read every field of an index that holds the first block
\* of the file while the second block waits for the parser.
C18_Witness ==
    /\ ConstAccessorHeld
    /\ Cardinality(viewer.seen) = Cardinality(ViewFields)
    /\ pc = "graph"
    /\ opTrace.parsed # <<>>
    /\ blockQueue # <<>> /\ Head(blockQueue)[1] > 0
    /\ viewer.base.linePosition # <<>>

\* ---------------------------------------------------------------------- C19
\* An index operation that opened its file is over and interrupt() was not
\* called since it was submitted; indexed.file is the file it indexed.
UninterruptedIndexOver == IndexOver /\ opTrace.opened /\ ~interruptRequest

Unterminated(file) == file # <<>> /\ Last(file) # "LF"

\* The last line position is the synthetic one of a file of size bytes.
SyntheticEntry(d, size) ==
    d.fakeFinalLF /\ d.linePosition # <<>> /\ Last(d.linePosition) = size + 1

\* C19: after an uninterrupted index operation on a non-empty file whose
\* last line has no terminator the last line position is file_size + 1 and
\* fake_final_lf is set; after one on a file that ends with a terminator
\* fake_final_lf is not set; whenever fake_final_lf is set once an index
\* operation is over, the last entry is the size of the file it indexed
\* plus one.
C19_FakeFinalLF ==
    /\ (UninterruptedIndexOver /\ Unterminated(indexed.file))
          => SyntheticEntry(indexing_data, Len(indexed.file))
    /\ (UninterruptedIndexOver /\ indexed.file # <<>> /\ Last(indexed.file) = "LF")
          => ~indexing_data.fakeFinalLF
    /\ (IndexOver /\ indexing_data.fakeFinalLF)
          => SyntheticEntry(indexing_data, Len(indexed.file))

\* ---------------------------------------------------------------------- C20
\* The file "x\ty\n" was parsed as one block, the index empty before.
TabExampleParsed ==
    /\ fileBytes = <<"a", "TAB", "a", "LF">>
    /\ ops = <<>>
    /\ opTrace.parsed = << <<0, 4>> >>

\* C20 as claimed: the file "x\ty\n" indexed with TabStop = 8 has a line 0
\* of length 8 = 1 + (8 - (1 mod 8) - 1) + 1, and max_length is 8.
C20_TabExample ==
    TabExampleParsed
    => /\ state.max_length = 1 + (TabStop - (1 % TabStop) - 1) + 1
       /\ indexing_data.maxLength = 1 + (TabStop - (1 % TabStop) - 1) + 1

\* C20 as amended: the file "x\ty\n" indexed with TabStop = 8 has one line,
\* which ends at offset 4, of length 9: its three bytes, the tab among them,
\* and the 8 - (1 mod 8) - 1 = 6 spaces that take the tab to the next stop.
C20_TabExampleCountsTab ==
    TabExampleParsed
    => /\ indexing_data.linePosition = <<4>>
       /\ state.max_length = 3 + (TabStop - (1 % TabStop) - 1)
       /\ indexing_data.maxLength = 3 + (TabStop - (1 % TabStop) - 1)

C20_Witness == TabExampleParsed /\ indexing_data.maxLength > 0

\* ---------------------------------------------------------------------- C21
\* The file "a\nbb\nccc\n".
ThreeLines == <<"a", "LF", "a", "a", "LF", "a", "a", "a", "LF">>

\* index_all of the file "a\nbb\nccc\n" is over, all of the file indexed.
ThreeLinesIndexed ==
    /\ fileBytes = ThreeLines
    /\ IndexOver
    /\ opKind = "full"
    /\ lastFull.valid /\ lastFull.file = fileBytes

ThreeBlocksAndLF ==
    [i \in 1..(3 * IndexingBlockSize + 1) |->
        IF i <= 3 * IndexingBlockSize THEN "a" ELSE "LF"]

\* index_all of that file is over, all of the file indexed.
ThreeBlocksIndexed ==
    /\ fileBytes = ThreeBlocksAndLF
    /\ IndexOver
    /\ opKind = "full"
    /\ lastFull.valid /\ lastFull.file = fileBytes

\* An earlier index_all indexed the same file.
IndexedTwice == prevFull.valid /\ prevFull.file = lastFull.file

\* C22 as claimed: after index_all of three indexing blocks of 'a' and a
\* newline there is 1 line, the header window is one indexing block, the
\* tail window is two indexing blocks long and ends at indexed_size, and the
\* full digest is that of an earlier run on the same file.
C22_ThreeBlocksExample ==
    ThreeBlocksIndexed
    => /\ GetNbLines(indexing_data) = 1
       /\ indexing_data.hash.headerSize = IndexingBlockSize
       /\ indexing_data.hash.tailSize = 2 * IndexingBlockSize
       /\ indexing_data.hash.tailOffset + indexing_data.hash.tailSize
             = indexing_data.hash.size
       /\ IndexedTwice => prevFull.hash.fullDigest = lastFull.hash.fullDigest

\* C22 as amended: as claimed, but the tail window holds the last two blocks
\* read, the third indexing block and the block of the newline byte: it
\* starts at 2 x IndexingBlockSize and is IndexingBlockSize + 1 bytes long.
C22_ThreeBlocksTailOfTwoBlocks ==
    ThreeBlocksIndexed
    => /\ GetNbLines(indexing_data) = 1
       /\ indexing_data.hash.size = 3 * IndexingBlockSize + 1
       /\ indexing_data.hash.headerSize = IndexingBlockSize
       /\ indexing_data.hash.tailOffset = 2 * IndexingBlockSize
       /\ indexing_data.hash.tailSize = IndexingBlockSize + 1
       /\ indexing_data.hash.tailDigest
             = DigestOf(Mid(fileBytes, 2 * IndexingBlockSize, IndexingBlockSize + 1))
       /\ IndexedTwice => prevFull.hash.fullDigest = lastFull.hash.fullDigest

C22_Witness == ThreeBlocksIndexed /\ IndexedTwice

\* ---------------------------------------------------------------------- C23
\* A partial index that opened its file is over and interrupt() was not
\* called since it was submitted.
UninterruptedPartialOver == UninterruptedIndexOver /\ opKind = "partial"

\* The line positions of d other than a synthetic final one.
RecordedOffsets(d) ==
    IF d.fakeFinalLF
    THEN SubSeq(d.linePosition, 1, Len(d.linePosition) - 1)
    ELSE d.linePosition

RECURSIVE LongestLineEndingFrom(_, _, _)
\* The length of the longest line of file whose newline byte is among the
\* first n bytes and at offset from or later; no tabs, a one-byte line feed.
LongestLineEndingFrom(file, from, n) ==
    IF n = 0 THEN 0
    ELSE IF file[n] = "LF" /\ n - 1 >= from
    THEN LET starts == LineStarts(file, n - 1)
             start == IF starts = <<>> THEN 0 ELSE Last(starts)
         IN Max(n - 1 - start, LongestLineEndingFrom(file, from, n - 1))
    ELSE LongestLineEndingFrom(file, from, n - 1)

\* The file the last index operation indexed has no tab and is UTF-8, read
\* with a one-byte line feed.
PlainLines ==
    /\ \A i \in 1..Len(indexed.file) : indexed.file[i] # "TAB"
    /\ detectedCodec = "UTF-8"
    /\ indexing_data.encodingForced = NoCodec
    /\ state.encodingParams.lineFeedWidth = 1

\* C23: an uninterrupted partial index on an openable file starts reading at
\* the indexed size it found, keeps every line offset it found (other than
\* a synthetic final one) at its line number, does not lower nb_lines, and
\* leaves max_length the larger of the one it found and the length of the
\* longest line that ends in the newly indexed bytes.
C23_PartialIndexFrame ==
    UninterruptedPartialOver
    => /\ initialPosition = opTrace.before.hash.size
       /\ \A i \in 1..Len(opTrace.parsed) :
             opTrace.parsed[i][1] >= 0
                => opTrace.parsed[i][1] >= opTrace.before.hash.size
       /\ IsPrefix(RecordedOffsets(opTrace.before), indexing_data.linePosition)
       /\ GetNbLines(indexing_data) >= GetNbLines(opTrace.before)
       /\ indexing_data.maxLength >= opTrace.before.maxLength
       /\ (PlainLines /\ ~opTrace.readFailed)
             => indexing_data.maxLength
                  = Max(opTrace.before.maxLength,
                        LongestLineEndingFrom(indexed.file,
                                              opTrace.before.hash.size,
                                              Len(indexed.file)))

\* ---------------------------------------------------------------------- C24
\* The last index_all submitted has recorded its forced encoding: its run()
\* is past clear() and forceEncoding(), or a later operation was submitted.
ForcedEncodingRecorded ==
    ops # <<>> /\ ~(opKind = "full" /\ Last(ops) = "queued")

\* C24: from the moment the last index_all submitted has recorded the
\* encoding c it was given, through partial index, check, cancellation and
\* open failure, the forced encoding of the index is c.
C24_ForcedEncodingStays ==
    ForcedEncodingRecorded => indexing_data.encodingForced = opForced

\* ---------------------------------------------------------------------- C25
\* C25: after every addAll of a non-empty block the tail window totals at
\* most two indexing blocks, and at least one indexing block once that much
\* has been indexed.
C25_TailWindowBound ==
    /\ indexing_data.hash.tailSize <= 2 * IndexingBlockSize
    /\ indexing_data.hash.size >= IndexingBlockSize
          => indexing_data.hash.tailSize >= IndexingBlockSize

\* ---------------------------------------------------------------------- C26
\* C26: in every reachable state the header window totals at most one
\* indexing block, and its size and digest are those of the blocks it holds
\* (it is never trimmed).
C26_HeaderWindowBound ==
    LET h == indexing_data.hash
    IN /\ h.headerSize <= IndexingBlockSize
       /\ h.headerSize = SumSizes(h.headerBlocks)
       /\ h.headerBlocks # <<>> => h.headerDigest = DigestOf(Concat(h.headerBlocks))

\* ---------------------------------------------------------------------- C27
\* The reader does not read once the interrupt request is set.
NoReadAfterInterrupt ==
    [][(interruptRequest /\ pc = "graph") => filePos' = filePos]_vars

RECURSIVE TabSpaces(_, _, _)
\* The spaces the tabs at offsets start .. end - 1 of file add to the line
\* that starts at offset start: each tab fills up to the next tab stop.
TabSpaces(file, start, end) ==
    IF end <= start THEN 0
    ELSE LET spaces == TabSpaces(file, start, end - 1)
         IN IF file[end] = "TAB"
            THEN spaces + TabStop - (((end - 1 - start) + spaces) % TabStop) - 1
            ELSE spaces

RECURSIVE LongestExpandedLine(_, _, _)
\* The longest expanded length among the lines of file whose newline byte is
\* at an offset in from .. n - 1; a one-byte line feed.
LongestExpandedLine(file, from, n) ==
    IF n = 0 THEN 0
    ELSE IF file[n] = "LF" /\ n - 1 >= from
    THEN LET starts == LineStarts(file, n - 1)
             start == IF starts = <<>> THEN 0 ELSE Last(starts)
         IN Max((n - 1 - start) + TabSpaces(file, start, n - 1),
                LongestExpandedLine(file, from, n - 1))
    ELSE LongestExpandedLine(file, from, n - 1)

\* C28: the longest length parseDataBlock computes over the lines that end
\* in a block is the longest of their byte counts (terminator excluded) plus
\* the spaces of the tabs inside each line, columns counted from the line's
\* start: no tab behind a line's terminator and no byte behind the scanned
\* span contributes.
C28_LineLengthLaw ==
    opTrace.parsed # <<>>
    => state.max_length
         = LongestExpandedLine(fileBytes, Last(opTrace.parsed)[1],
                               Last(opTrace.parsed)[1] + Last(opTrace.parsed)[2])

\* ---------------------------------------------------------------------- C29
\* C29: whenever something is indexed the windows are contiguous ranges of
\* the bytes added since the last clear: the tail window ends at the indexed
\* size and its digest is that of the bytes from tail_offset on, the header
\* digest is that of the first header_size bytes, header_size is at most the
\* indexed size, and the indexed size is the sum of the sizes of the blocks
\* added.
C29_WindowsContiguous ==
    LET h == indexing_data.hash
    IN h.size > 0
       => /\ h.size = Len(indexedBytes)
          /\ h.tailOffset + h.tailSize = h.size
          /\ h.tailDigest = DigestOf(Mid(indexedBytes, h.tailOffset, h.tailSize))
          /\ h.headerSize <= h.size
          /\ h.headerDigest = DigestOf(Mid(indexedBytes, 0, h.headerSize))

\* A partial index has added blocks behind those of an earlier operation and
\* the tail window no longer starts at the first byte.
C29_Witness ==
    LET h == indexing_data.hash
    IN /\ opKind = "partial"
       /\ pc = "graph"
       /\ Len(opTrace.parsed) >= 2
       /\ opTrace.before.hash.size > 0
       /\ h.size > opTrace.before.hash.size
       /\ h.tailOffset > 0
       /\ h.headerSize < h.size

\* ---------------------------------------------------------------------- C30
\* From the submission of a check to the next submission nothing changes the
\* index: line positions, longest line, fingerprint and encodings.
CheckLeavesIndex ==
    [][opKind' = "check" => indexing_data' = indexing_data]_vars

\* C30: a check of the file leaves the index as it found it, whatever it
\* answers and whether or not interrupt() is called while it runs, and its
\* answer is the one the fingerprint, the file and the configuration give,
\* the interrupt request set or not.
C30_CheckIsReadOnly ==
    /\ CheckLeavesIndex
    /\ [](AtCheckResult
            => checkResult
                 = DoCheckFileChanges(indexing_data.hash, fileBytes, fileCanOpen,
                                      checkTrace.fast).status)

\* interrupt() was called while a check of an indexed, unchanged file ran,
\* and the check answered Unchanged.
C30_Witness ==
    /\ AtCheckResult
    /\ opTrace.interrupted
    /\ interruptRequest
    /\ IndexedSize > 0
    /\ checkResult = "Unchanged"

\* ---------------------------------------------------------------------- C31
\* parseDataBlock over the whole file as a single block at offset 0, the
\* byte behind the block's terminating NUL being garbage.
ParsedAsSingleBlock(garbage) ==
    ParseDataBlock(0, fileBytes, garbage,
                   GuessEncoding(fileBytes,
                                 [NewIndexingState EXCEPT !.file_size = Len(fileBytes)],
                                 EmptyIndexingData))

\* Every byte of the file went through parseDataBlock, in consecutive
\* non-empty blocks.
AllBlocksParsed ==
    opTrace.parsed # <<>> /\ filePos = Len(fileBytes)

\* C31: however the byte sequence is cut into consecutive non-empty blocks,
\* the line positions collected and the maximal length are those of parsing
\* the sequence as a single block.
C31_SplitIndependence ==
    AllBlocksParsed
    => \E garbage \in [1..MaxGarbage -> {"TAB", "a"}] :
          /\ indexing_data.linePosition = ParsedAsSingleBlock(garbage).line_positions
          /\ indexing_data.maxLength = ParsedAsSingleBlock(garbage).state.max_length

\* ---------------------------------------------------------------------- C32
\* C32: whenever an index operation is over with fake_final_lf set, the last
\* entry is the file size plus one and the indexed size is the file size:
\* the whole file was read and hashed, every other line position lies
\* inside the hashed range, and no synthetic entry follows a read failure
\* that stopped the reader before the end of the file.
C32_FakeLFOnlyAfterWholeFile ==
    (IndexOver /\ indexing_data.fakeFinalLF)
    => /\ Last(indexing_data.linePosition) = state.file_size + 1
       /\ indexing_data.hash.size = state.file_size
       /\ \A i \in 1..(Len(indexing_data.linePosition) - 1) :
              indexing_data.linePosition[i] <= indexing_data.hash.size
       /\ ~(opTrace.readFailed /\ filePos < state.file_size)

====
